---- MODULE Spec2Model ----
(***************************************************************************)
(* Resilience core of the clean-platform services.                         *)
(*                                                                         *)
(* Part 1: the circuit breaker of services/common/circuit_breaker.py       *)
(* (CircuitBreakerMetrics and CircuitBreaker), called concurrently by the  *)
(* threads of Threads.  Every block the code runs under `_state_lock` or   *)
(* under the metrics lock is one atomic step; the wrapped operation runs   *)
(* between two such steps, outside any lock.                               *)
(*                                                                         *)
(* Part 2: the batched consumer of services/kafka-consumer/                *)
(* optimized_consumer.py (OptimizedKafkaConsumer): the poll loop, the open *)
(* batch, and the processing of a flushed batch by handler, commit and     *)
(* dead-letter path.                                                       *)
(*                                                                         *)
(* Spec is the breaker with one listener, SpecListeners the breaker with   *)
(* two listeners that may raise, SpecConsumer the consumer, SpecLifecycle  *)
(* the consumer with the signals that stop it, SpecStartTwice the consumer *)
(* whose start() is called twice.                                          *)
(***************************************************************************)
EXTENDS Integers, Sequences, FiniteSets, TLC

\* ---------------------------------------------------------------- bounds
\* The clock runs from 1 to MaxTime; at most MaxCalls calls are started.
MaxTime == 3
MaxCalls == 3

\* The constructor arguments Init draws from.
FailureThresholds == {2}
RecoveryTimeouts == {1, 2}
SuccessThresholds == {1, 2}
WindowSizes == {1, 2}

\* Calling threads; each calls with arguments of its own.
Threads == {"t1", "t2"}
Args == [t1 |-> "a1", t2 |-> "a2"]
NoArgs == "-"
\* failure_rate_threshold as a fraction <<numerator, denominator>>: the
\* default 0.5, and 2.0, a threshold no failure rate reaches.
RateThresholds == {<<1, 2>>, <<2, 1>>}

\* ------------------------------------------------------------- constants
CLOSED == "closed"
OPEN == "open"
HALF_OPEN == "half_open"
CircuitState == {CLOSED, OPEN, HALF_OPEN}

\* Python's None for the nullable timestamps.  The clock starts at 1, so a
\* timestamp is truthy exactly when it differs from None.
None == 0

\* The breaker's name, as given to the constructor.
name == "external_api"

\* _state_lock when no thread holds it.
Unlocked == "unlocked"
\* What a registered state-change listener does when it is called; the
\* last three use the breaker that calls them.
ListenerKinds == {"returns", "raises", "reads_state", "resets", "calls"}
ReentrantListeners == {"reads_state", "resets", "calls"}
\* _state_lock when the thread that holds it is calling the listeners.
Notifying == "notifying"
\* No exception is on its way out of the current operation.
NoError == "-"

VARIABLES
    breaker,      \* the CircuitBreaker object, its metrics object included
    pc,           \* where each thread stands inside call()
    arg,          \* the arguments of each thread's current call (NoArgs outside call())
    now,          \* time.time() / datetime.now()
    event,        \* the last step taken: operation, thread, breaker before, result
    history,      \* the 'success' flag of every recorded outcome, oldest first
    started,      \* the number of calls started so far
    streak,       \* failures recorded since the last success or reset()
    half_open_successes, \* successes recorded since HALF_OPEN was entered
    consumer,     \* the OptimizedKafkaConsumer object
    broker,       \* the cluster: fetch positions, committed offsets
    kpc,          \* where the consuming thread stands
    frame,        \* the local variables of the consuming thread
    trace,        \* what the consumer did so far, oldest first
    runtime       \* signal handler in progress, threads started, handles closed,
                  \* lag monitor inside a call on the consumer handle

\* The variables of the circuit breaker and those of the consumer; the
\* clock `now` is read by both.
bvars == <<breaker, pc, arg, event, history, started, streak,
           half_open_successes>>
kvars == <<consumer, broker, kpc, frame, trace, runtime>>
vars == <<now, bvars, kvars>>

\* The breaker is specified without a consumer and the consumer without a
\* breaker: the variables of the absent one keep this value.
Absent == "absent"

\* ------------------------------------------------- CircuitBreakerMetrics

\* collections.deque(maxlen=window_size).append.  An entry of `calls` is
\* modelled by its 'success' key, the only key the code ever reads back;
\* 'timestamp', 'duration' and 'error' are written and never read.
\* Mutant: a full deque drops the new entry instead of the oldest one.
DequeAppend_DropNewest(calls, maxlen, entry) ==
    IF Len(calls) >= maxlen THEN calls ELSE Append(calls, entry)

DequeAppend(calls, maxlen, entry) ==
    LET s == Append(calls, entry)
    IN  IF Len(s) > maxlen THEN Tail(s) ELSE s

\* `lock` is Unlocked or the thread that holds it.
CircuitBreakerMetrics(window_size) ==
    [ window_size       |-> window_size,
      calls             |-> <<>>,
      lock              |-> Unlocked,
      total_calls       |-> 0,
      successful_calls  |-> 0,
      failed_calls      |-> 0,
      rejected_calls    |-> 0,
      last_failure_time |-> None,
      last_success_time |-> None,
      circuit_opened_at |-> None ]

record_success(m, t) ==
    [ m EXCEPT
        !.calls = DequeAppend(@, m.window_size, [success |-> TRUE]),
        !.total_calls = @ + 1,
        !.successful_calls = @ + 1,
        !.last_success_time = t ]

record_failure(m, t) ==
    [ m EXCEPT
        !.calls = DequeAppend(@, m.window_size, [success |-> FALSE]),
        !.total_calls = @ + 1,
        !.failed_calls = @ + 1,
        !.last_failure_time = t ]

\* Mutant: a rejection is also entered in the rolling history, as a failure.
record_rejection_AsFailure(m) ==
    [ m EXCEPT !.calls = DequeAppend(@, m.window_size, [success |-> FALSE]),
               !.total_calls = @ + 1,
               !.rejected_calls = @ + 1 ]

\* Mutant: a rejection is counted as rejected only, not in total_calls.
record_rejection_Uncounted(m) == [ m EXCEPT !.rejected_calls = @ + 1 ]

record_rejection(m) ==
    [ m EXCEPT !.total_calls = @ + 1, !.rejected_calls = @ + 1 ]

\* The number of failed entries of a sequence of call entries.
RECURSIVE Failures(_)
Failures(calls) ==
    IF calls = <<>> THEN 0
    ELSE (IF Head(calls).success THEN 0 ELSE 1) + Failures(Tail(calls))

\* The float failures / len(calls) as the fraction <<failures, len(calls)>>;
\* 0.0 is <<0, 1>>.
\* Mutant: the failures are divided by the window size, not by len(calls).
get_failure_rate_ByWindow(m) ==
    IF m.calls = <<>> THEN <<0, 1>>
    ELSE <<Failures(m.calls), m.window_size>>

get_failure_rate(m) ==
    IF m.calls = <<>> THEN <<0, 1>>
    ELSE <<Failures(m.calls), Len(m.calls)>>

\* rate >= threshold on fractions with positive denominators.
RateGE(rate, threshold) == rate[1] * threshold[2] >= threshold[1] * rate[2]

\* -------------------------------------------------------- CircuitBreaker

CircuitBreaker(failure_threshold, recovery_timeout, success_threshold, failure_rate_threshold, window_size, fallback_function) ==
    [ name                   |-> name,
      failure_threshold      |-> failure_threshold,
      recovery_timeout       |-> recovery_timeout,
      success_threshold      |-> success_threshold,
      failure_rate_threshold |-> failure_rate_threshold,
      fallback_function      |-> fallback_function,
      _state                 |-> CLOSED,
      _failure_count         |-> 0,
      _success_count         |-> 0,
      _last_failure_time     |-> None,
      _state_lock            |-> Unlocked,
      metrics                |-> CircuitBreakerMetrics(window_size),
      _state_change_listeners |-> <<>>,
      \* what the registered state-change listeners were called with during
      \* the current operation, one entry per listener called
      listener_calls         |-> <<>>,
      \* the exception a listener sent out of the current operation
      propagated             |-> NoError ]

add_state_change_listener(b, listener) ==
    [ b EXCEPT !._state_change_listeners = Append(@, listener) ]

\* Mutant: a listener's exception is not caught; it ends the notification
\* and leaves the operation.
RECURSIVE NotifyFrom_Uncaught(_, _, _)
NotifyFrom_Uncaught(b, new_state, i) ==
    IF i > Len(b._state_change_listeners) THEN b
    ELSE LET called == [ b EXCEPT !.listener_calls = Append(@, new_state) ]
         IN  IF b._state_change_listeners[i] = "raises"
             THEN [ called EXCEPT !.propagated = "listener_error" ]
             ELSE NotifyFrom_Uncaught(called, new_state, i + 1)

\* Mutant: the state lock can be taken again by the thread that holds it,
\* so that every listener returns.
RECURSIVE NotifyFrom_Reentrant(_, _, _)
NotifyFrom_Reentrant(b, new_state, i) ==
    IF i > Len(b._state_change_listeners) THEN b
    ELSE NotifyFrom_Reentrant([ b EXCEPT !.listener_calls = Append(@, new_state) ],
                              new_state, i + 1)

\* _notify_state_change from the i-th listener on: each listener is called
\* inside its own try; `except Exception` logs what it raises and the loop
\* goes on.  The caller holds _state_lock, a threading.Lock: a listener
\* that reads `state` or calls reset() or call() on this breaker waits for
\* the lock its own thread holds, and the notification stops there.
RECURSIVE NotifyFrom(_, _, _)
NotifyFrom(b, new_state, i) ==
    IF i > Len(b._state_change_listeners) THEN b
    ELSE LET called == [ b EXCEPT !.listener_calls = Append(@, new_state) ]
         IN  IF b._state_change_listeners[i] \in ReentrantListeners
             THEN [ called EXCEPT !._state_lock = Notifying ]
             ELSE NotifyFrom(called, new_state, i + 1)

_notify_state_change(b, new_state) == NotifyFrom(b, new_state, 1)

\* Mutant: opening keeps the failure count.
_transition_to_open_KeepCount(b, t) ==
    _notify_state_change(
        [ b EXCEPT !._state = OPEN,
                   !._success_count = 0,
                   !.metrics.circuit_opened_at = t ],
        OPEN)

_transition_to_open(b, t) ==
    _notify_state_change(
        [ b EXCEPT !._state = OPEN,
                   !._failure_count = 0,
                   !._success_count = 0,
                   !.metrics.circuit_opened_at = t ],
        OPEN)

_transition_to_half_open(b) ==
    _notify_state_change(
        [ b EXCEPT !._state = HALF_OPEN,
                   !._success_count = 0,
                   !._failure_count = 0 ],
        HALF_OPEN)

\* Mutant: closing keeps the success count.
_transition_to_closed_KeepSuccesses(b) ==
    _notify_state_change(
        [ b EXCEPT !._state = CLOSED,
                   !._failure_count = 0,
                   !.metrics.circuit_opened_at = None ],
        CLOSED)

_transition_to_closed(b) ==
    _notify_state_change(
        [ b EXCEPT !._state = CLOSED,
                   !._failure_count = 0,
                   !._success_count = 0,
                   !.metrics.circuit_opened_at = None ],
        CLOSED)

\* Mutant: the probe is allowed one second early.
_should_attempt_reset_Early(b, t) ==
    /\ b._last_failure_time # None
    /\ t - b._last_failure_time >= b.recovery_timeout - 1

\* Mutant: the timeout must be exceeded, not reached.
_should_attempt_reset_Strict(b, t) ==
    /\ b._last_failure_time # None
    /\ t - b._last_failure_time > b.recovery_timeout

_should_attempt_reset(b, t) ==
    /\ b._last_failure_time # None
    /\ t - b._last_failure_time >= b.recovery_timeout

\* The `state` property: the breaker after the lazy OPEN -> HALF_OPEN check;
\* the value the property returns is its _state.
state(b, t) ==
    IF b._state = OPEN /\ _should_attempt_reset(b, t)
    THEN _transition_to_half_open(b)
    ELSE b

\* Mutant: the failure count must exceed the threshold.
ShouldOpen_Exceed(b) ==
    \/ b._failure_count > b.failure_threshold
    \/ RateGE(get_failure_rate(b.metrics), b.failure_rate_threshold)

\* Mutant: the rate rule applies once failure_threshold outcomes are in
\* the rolling history.
ShouldOpen_MinSamples(b) ==
    \/ b._failure_count >= b.failure_threshold
    \/ /\ Len(b.metrics.calls) >= b.failure_threshold
       /\ RateGE(get_failure_rate(b.metrics), b.failure_rate_threshold)

\* The rule of _on_failure that opens a CLOSED circuit.
ShouldOpen(b) ==
    \/ b._failure_count >= b.failure_threshold
    \/ RateGE(get_failure_rate(b.metrics), b.failure_rate_threshold)

\* Mutant: the success count must exceed the threshold.
_on_success_Exceed(b, t) ==
    LET b1 == [ b EXCEPT !.metrics = record_success(@, t) ]
    IN  IF b1._state = HALF_OPEN
        THEN LET b2 == [ b1 EXCEPT !._success_count = @ + 1 ]
             IN  IF b2._success_count > b2.success_threshold
                 THEN _transition_to_closed(b2)
                 ELSE b2
        ELSE [ b1 EXCEPT !._failure_count = 0 ]

\* Mutant: successes are counted in every state but CLOSED.
_on_success_NotClosed(b, t) ==
    LET b1 == [ b EXCEPT !.metrics = record_success(@, t) ]
    IN  IF b1._state # CLOSED
        THEN LET b2 == [ b1 EXCEPT !._success_count = @ + 1 ]
             IN  IF b2._success_count >= b2.success_threshold
                 THEN _transition_to_closed(b2)
                 ELSE b2
        ELSE [ b1 EXCEPT !._failure_count = 0 ]

_on_success(b, t) ==
    LET b1 == [ b EXCEPT !.metrics = record_success(@, t) ]
    IN  IF b1._state = HALF_OPEN
        THEN LET b2 == [ b1 EXCEPT !._success_count = @ + 1 ]
             IN  IF b2._success_count >= b2.success_threshold
                 THEN _transition_to_closed(b2)
                 ELSE b2
        ELSE [ b1 EXCEPT !._failure_count = 0 ]

\* Mutant: a HALF_OPEN failure reopens only when no success was counted yet.
_on_failure_PartialCredit(b, t) ==
    LET b1 == [ b EXCEPT !.metrics = record_failure(@, t),
                         !._last_failure_time = t ]
    IN  IF b1._state = CLOSED
        THEN LET b2 == [ b1 EXCEPT !._failure_count = @ + 1 ]
             IN  IF ShouldOpen(b2) THEN _transition_to_open(b2, t) ELSE b2
        ELSE IF b1._state = HALF_OPEN /\ b1._success_count = 0
        THEN _transition_to_open(b1, t)
        ELSE b1

\* Mutant: a failure recorded while the circuit is OPEN does not move
\* _last_failure_time.
_on_failure_StampUnlessOpen(b, t) ==
    LET b1 == [ b EXCEPT !.metrics = record_failure(@, t),
                         !._last_failure_time = IF b._state = OPEN THEN @ ELSE t ]
    IN  IF b1._state = CLOSED
        THEN LET b2 == [ b1 EXCEPT !._failure_count = @ + 1 ]
             IN  IF ShouldOpen(b2) THEN _transition_to_open(b2, t) ELSE b2
        ELSE IF b1._state = HALF_OPEN
        THEN _transition_to_open(b1, t)
        ELSE b1

_on_failure(b, t) ==
    LET b1 == [ b EXCEPT !.metrics = record_failure(@, t),
                         !._last_failure_time = t ]
    IN  IF b1._state = CLOSED
        THEN LET b2 == [ b1 EXCEPT !._failure_count = @ + 1 ]
             IN  IF ShouldOpen(b2) THEN _transition_to_open(b2, t) ELSE b2
        ELSE IF b1._state = HALF_OPEN
        THEN _transition_to_open(b1, t)
        ELSE b1

\* Mutant: reset() zeroes the counters and leaves the state as it is.
reset_CountersOnly(b) == [ b EXCEPT !._failure_count = 0, !._success_count = 0 ]

\* Mutant: reset() also empties the rolling history.
reset_ClearsHistory(b) == _transition_to_closed([ b EXCEPT !.metrics.calls = <<>> ])

reset(b) == _transition_to_closed(b)

\* ------------------------------------------------------------- results
NoResult == [kind |-> "none", value |-> <<>>]
Return(v) == [kind |-> "return", value |-> v]
Raise(e) == [kind |-> "raise", value |-> e]
NeverReturns == [kind |-> "never", value |-> <<>>]

func_result(a) == <<"func", a>>
fallback_result(a) == <<"fallback", a>>
CircuitBreakerError(b) == <<"CircuitBreakerError", b.name>>
ExpectedError(a) == <<"expected_exception", a>>
OtherError(a) == <<"other_exception", a>>

\* --------------------------------------------------------------- steps
\* The breaker as an operation finds it: no listener called yet.
Entering == [ breaker EXCEPT !.listener_calls = <<>>, !.propagated = NoError ]

\* What an operation ends with: nothing when it is stuck in a listener,
\* else the exception that left one of its locked blocks, if any, else its
\* normal result.
Outcome(b, normal) ==
    IF b._state_lock = Notifying THEN NeverReturns
    ELSE IF b.propagated # NoError THEN Raise(<<b.propagated>>) ELSE normal

\* Where a thread stands after a locked block of call(): in the block for
\* ever when a listener waits for the state lock, else at `position`.
Landing(b, position) == IF b._state_lock = Notifying THEN "blocked" ELSE position

Event(op, t, res) == [op |-> op, thread |-> t, pre |-> Entering, result |-> res]

\* A breaker built by the constructor, then given its listeners, before
\* its first use.
BreakerInit(b) ==
    /\ breaker = b
    /\ event = [op |-> "init", thread |-> "-", pre |-> b, result |-> NoResult]
    /\ pc = [t \in Threads |-> "idle"]
    /\ arg = [t \in Threads |-> NoArgs]
    /\ now = 1
    /\ history = <<>>
    /\ started = 0
    /\ streak = 0
    /\ half_open_successes = 0
    /\ consumer = Absent /\ broker = Absent /\ kpc = Absent
    /\ frame = Absent /\ trace = Absent /\ runtime = Absent

\* One listener that returns is registered, as in the module's usage example.
Init ==
    \E ft \in FailureThresholds, rt \in RecoveryTimeouts,
       st \in SuccessThresholds, frt \in RateThresholds,
       ws \in WindowSizes, fb \in BOOLEAN :
       BreakerInit(add_state_change_listener(
                       CircuitBreaker(ft, rt, st, frt, ws, fb), "returns"))

\* Two listeners are registered, of which at least one raises.
ListenerLists == {<<"raises", "returns">>, <<"returns", "raises">>, <<"raises", "raises">>}
InitListeners ==
    \E ls \in ListenerLists, fb \in BOOLEAN :
       BreakerInit(add_state_change_listener(
                       add_state_change_listener(
                           CircuitBreaker(2, 1, 2, <<1, 2>>, 2, fb), ls[1]),
                       ls[2]))

\* Bookkeeping of the steps that only read the `state` property.
AfterQuery(b) ==
    /\ half_open_successes' =
          IF b._state = HALF_OPEN /\ breaker._state # HALF_OPEN
          THEN 0 ELSE half_open_successes
    /\ UNCHANGED <<history, streak>>

\* Mutant: call() takes the state lock on entry and keeps it while the
\* wrapped operation runs.
CallEnter_HoldingLock(t) ==
    /\ pc[t] = "idle"
    /\ started < MaxCalls
    /\ breaker._state_lock = Unlocked
    /\ started' = started + 1
    /\ LET b == state(Entering, now)
       IN  /\ breaker' = [ b EXCEPT !._state_lock = t ]
           /\ pc' = [pc EXCEPT ![t] = IF b._state = OPEN THEN "rejecting" ELSE "running"]
           /\ AfterQuery(b)
    /\ arg' = [arg EXCEPT ![t] = Args[t]]
    /\ event' = Event("call_enter", t, NoResult)
    /\ UNCHANGED <<now, kvars>>

\* call(): `if self.state == CircuitState.OPEN`
CallEnter(t) ==
    /\ pc[t] = "idle"
    /\ started < MaxCalls
    /\ breaker._state_lock = Unlocked
    /\ started' = started + 1
    /\ LET b == state(Entering, now)
       IN  /\ breaker' = b
           /\ pc' = [pc EXCEPT ![t] = Landing(b, IF b._state = OPEN THEN "rejecting"
                                                  ELSE "running")]
           /\ AfterQuery(b)
    /\ arg' = [arg EXCEPT ![t] = Args[t]]
    /\ event' = Event("call_enter", t, NoResult)
    /\ UNCHANGED <<now, kvars>>

\* call(): record_rejection(), then the fallback's result or CircuitBreakerError
Reject(t) ==
    /\ pc[t] = "rejecting"
    /\ breaker.metrics.lock = Unlocked
    /\ LET b == [ Entering EXCEPT !.metrics = record_rejection(@) ]
       IN  /\ breaker' = b
           /\ event' = Event("reject", t,
                             IF b.fallback_function
                             THEN Return(fallback_result(arg[t]))
                             ELSE Raise(CircuitBreakerError(b)))
    /\ pc' = [pc EXCEPT ![t] = "idle"]
    /\ arg' = [arg EXCEPT ![t] = NoArgs]
    /\ UNCHANGED <<now, history, started, streak, half_open_successes,
                   kvars>>

\* call(): func returned; _on_success(duration); return result
OpSuccess(t) ==
    /\ pc[t] = "running"
    /\ breaker._state_lock = Unlocked
    /\ breaker.metrics.lock = Unlocked
    /\ breaker' = _on_success(Entering, now)
    /\ half_open_successes' =
          IF breaker._state = HALF_OPEN THEN half_open_successes + 1
          ELSE half_open_successes
    /\ event' = Event("on_success", t,
                      Outcome(breaker', Return(func_result(arg[t]))))
    /\ pc' = [pc EXCEPT ![t] = Landing(breaker', "idle")]
    /\ arg' = [arg EXCEPT ![t] = NoArgs]
    /\ history' = Append(history, TRUE)
    /\ streak' = 0
    /\ UNCHANGED <<now, started, kvars>>

\* call(): func raised expected_exception; _on_failure(e, duration)
OpFailure(t) ==
    /\ pc[t] = "running"
    /\ breaker._state_lock = Unlocked
    /\ breaker.metrics.lock = Unlocked
    /\ breaker' = _on_failure(Entering, now)
    /\ event' = Event("on_failure", t, Outcome(breaker', NoResult))
    /\ pc' = [pc EXCEPT ![t] = Landing(breaker', "failed")]
    /\ history' = Append(history, FALSE)
    /\ streak' = streak + 1
    /\ UNCHANGED <<arg, now, started, half_open_successes, kvars>>

\* call(): after _on_failure, `if self.state == CircuitState.HALF_OPEN` with a
\* fallback returns the fallback's result; otherwise `raise`
AfterFailure(t) ==
    /\ pc[t] = "failed"
    /\ breaker._state_lock = Unlocked
    /\ LET b == state(Entering, now)
       IN  /\ breaker' = b
           /\ event' = Event("after_failure", t,
                             Outcome(b,
                                 IF b._state = HALF_OPEN /\ b.fallback_function
                                 THEN Return(fallback_result(arg[t]))
                                 ELSE Raise(ExpectedError(arg[t]))))
           /\ AfterQuery(b)
           /\ pc' = [pc EXCEPT ![t] = Landing(b, "idle")]
    /\ arg' = [arg EXCEPT ![t] = NoArgs]
    /\ UNCHANGED <<now, started, kvars>>

\* Mutant: an exception of any class is recorded as a failure.
OpOtherError_Recorded(t) ==
    /\ pc[t] = "running"
    /\ breaker' = _on_failure(Entering, now)
    /\ event' = Event("other_error", t, Raise(OtherError(arg[t])))
    /\ pc' = [pc EXCEPT ![t] = "idle"]
    /\ arg' = [arg EXCEPT ![t] = NoArgs]
    /\ UNCHANGED <<now, history, started, streak, half_open_successes,
                   kvars>>

\* call(): func raised an exception that is not an expected_exception
OpOtherError(t) ==
    /\ pc[t] = "running"
    /\ breaker' = Entering
    /\ event' = Event("other_error", t, Raise(OtherError(arg[t])))
    /\ pc' = [pc EXCEPT ![t] = "idle"]
    /\ arg' = [arg EXCEPT ![t] = NoArgs]
    /\ UNCHANGED <<now, history, started, streak, half_open_successes,
                   kvars>>

\* A read of the `state` property by a thread that is not inside call()
StateQuery ==
    /\ breaker._state_lock = Unlocked
    /\ LET b == state(Entering, now)
       IN  /\ breaker' = b
           /\ AfterQuery(b)
    /\ event' = Event("state", "-", Outcome(breaker', NoResult))
    /\ UNCHANGED <<pc, arg, now, started, kvars>>

\* reset() by a thread that is not inside call()
Reset ==
    /\ breaker._state_lock = Unlocked
    /\ breaker' = reset(Entering)
    /\ event' = Event("reset", "-", Outcome(breaker', NoResult))
    /\ streak' = 0
    /\ half_open_successes' = 0
    /\ UNCHANGED <<pc, arg, now, history, started, kvars>>

\* The clock advances.
Tick ==
    /\ now < MaxTime
    /\ now' = now + 1
    /\ event' = Event("tick", "-", NoResult)
    /\ breaker' = Entering
    /\ UNCHANGED <<pc, arg, history, started, streak, half_open_successes,
                   kvars>>

Next ==
    \/ \E t \in Threads : CallEnter(t)
    \/ \E t \in Threads : Reject(t)
    \/ \E t \in Threads : OpSuccess(t)
    \/ \E t \in Threads : OpFailure(t)
    \/ \E t \in Threads : AfterFailure(t)
    \/ \E t \in Threads : OpOtherError(t)
    \/ StateQuery
    \/ Reset
    \/ Tick

Spec == Init /\ [][Next]_vars
SpecListeners == InitListeners /\ [][Next]_vars

\* ------------------------------------------------------------- get_stats

\* CircuitBreaker.get_stats() by a thread that is not inside call():
\* CircuitBreakerMetrics.get_stats takes the metrics lock and starts to
\* build the dict from the four counters.
GetStats(t) ==
    /\ pc[t] = "idle"
    /\ breaker.metrics.lock = Unlocked
    /\ breaker' = [ Entering EXCEPT !.metrics.lock = t ]
    /\ pc' = [pc EXCEPT ![t] = "get_stats"]
    /\ event' = Event("get_stats", t, NoResult)
    /\ UNCHANGED <<arg, now, history, started, streak, half_open_successes,
                   kvars>>

\* CircuitBreakerMetrics.get_stats: 'failure_rate': self.get_failure_rate(),
\* which takes the metrics lock, a threading.Lock; then the dict is
\* returned and the lock released.
GetStatsFailureRate(t) ==
    /\ pc[t] = "get_stats"
    /\ breaker.metrics.lock = Unlocked
    /\ breaker' = [ Entering EXCEPT !.metrics.lock = Unlocked ]
    /\ pc' = [pc EXCEPT ![t] = "idle"]
    /\ event' = Event("get_stats_return", t,
                      Return([ total_calls  |-> breaker.metrics.total_calls,
                               failure_rate |-> get_failure_rate(breaker.metrics) ]))
    /\ UNCHANGED <<arg, now, history, started, streak, half_open_successes,
                   kvars>>

\* _on_success / _on_failure while another thread holds the metrics lock:
\* the state lock is taken and record_success / record_failure waits.
RecordWaits(t) ==
    /\ pc[t] = "running"
    /\ breaker._state_lock = Unlocked
    /\ breaker.metrics.lock # Unlocked
    /\ breaker' = [ Entering EXCEPT !._state_lock = t ]
    /\ pc' = [pc EXCEPT ![t] = "recording"]
    /\ event' = Event("record_waits", t, NeverReturns)
    /\ UNCHANGED <<arg, now, history, started, streak, half_open_successes,
                   kvars>>

NextStats ==
    \/ Next
    \/ \E t \in Threads : GetStats(t)
    \/ \E t \in Threads : RecordWaits(t)

\* The breaker whose statistics are read.
InitStats ==
    \E ws \in WindowSizes, fb \in BOOLEAN :
       BreakerInit(add_state_change_listener(
                       CircuitBreaker(2, 1, 2, <<1, 2>>, ws, fb), "returns"))
SpecStats == InitStats /\ [][NextStats]_vars

\* One or two listeners, which return or use the breaker they are
\* registered with.
ReentrantLists ==
    { <<"returns", "returns">>, <<"reads_state", "returns">>,
      <<"returns", "resets">>, <<"calls", "raises">> }
InitReentrant ==
    \E ls \in ReentrantLists, fb \in BOOLEAN :
       BreakerInit(add_state_change_listener(
                       add_state_change_listener(
                           CircuitBreaker(2, 1, 2, <<1, 2>>, 2, fb), ls[1]),
                       ls[2]))
SpecReentrant == InitReentrant /\ [][Next]_vars

TypeOK ==
    /\ breaker._state \in CircuitState
    /\ pc \in [Threads -> {"idle", "rejecting", "running", "failed", "blocked",
                            "get_stats", "recording"}]
    /\ now \in 1..MaxTime

\* ====================================================================
\* Part 2: the batched consumer (optimized_consumer.py).  One thread runs
\* start() and with it the poll loop; a batch is processed inline by the
\* thread that flushes it.

\* Each partition's log holds the offsets 0 .. LogEnd - 1.
LogEnd == 2
Topic == "events"
Partitions == {0, 1}
BatchSizes == {2, 3}
\* batch_timeout_ms; the clock `now` counts seconds
BatchTimeouts == {1000}
MaxPollRecords == 2
NumWorkers == 2
\* The signals __init__ installs _signal_handler for; each is delivered at
\* most once.
Signals == {"SIGTERM", "SIGINT"}
\* No signal handler is running.
NoSignal == "-"
\* The default error handler only logs; a custom one may raise.
ErrorHandlers == {"default", "custom"}
\* The thread that runs start().
PollLoop == "poll_loop"

TopicPartition(topic, partition) == <<topic, partition>>

\* dict.get(key, default) and d[key] = value on dicts modelled as functions
Get(d, key, default) == IF key \in DOMAIN d THEN d[key] ELSE default
DictSet(d, key, value) ==
    [k \in DOMAIN d \cup {key} |-> IF k = key THEN value ELSE d[k]]

ConsumerConfig(batch_size, batch_timeout_ms, enable_dlq) ==
    [ topics           |-> {Topic},
      consumer_group   |-> "group",
      max_poll_records |-> MaxPollRecords,
      num_workers      |-> NumWorkers,
      batch_size       |-> batch_size,
      batch_timeout_ms |-> batch_timeout_ms,
      enable_dlq       |-> enable_dlq,
      dlq_topic        |-> None ]

\* __init__ at time t.  dlq_producer is TRUE for a producer object, FALSE
\* for None; processing_threads is the length of the list.
OptimizedKafkaConsumer(config, error_handler, t) ==
    [ config          |-> config,
      error_handler   |-> error_handler,
      dlq_producer    |-> config.enable_dlq,
      running         |-> FALSE,
      processing_threads |-> 0,
      batch_queue     |-> <<>>,
      batch_lock      |-> Unlocked,
      last_batch_time |-> t ]

\* A record of the log, and the message dict _add_to_batch builds from it.
\* key, value, timestamp and headers are carried along and never read.
Record(p, o) == [topic |-> Topic, partition |-> p, offset |-> o]
Message(record) ==
    [topic |-> record.topic, partition |-> record.partition, offset |-> record.offset]

\* The n records of partition p from the fetch position on.
Fetch(p, n) == [k \in 1..n |-> Record(p, broker.position[p] + k - 1)]

\* Mutant: the offset committed for a partition is that of its first
\* message in the batch.
RECURSIVE BatchOffsets_FirstWins(_, _)
BatchOffsets_FirstWins(batch, offsets) ==
    IF batch = <<>> THEN offsets
    ELSE LET msg == Head(batch)
             tp  == TopicPartition(msg.topic, msg.partition)
         IN  BatchOffsets_FirstWins(Tail(batch),
                 IF tp \in DOMAIN offsets THEN offsets
                 ELSE DictSet(offsets, tp, msg.offset + 1))

\* _commit_batch_offsets: `for msg in batch: offsets[tp] = msg['offset'] + 1`
RECURSIVE BatchOffsets(_, _)
BatchOffsets(batch, offsets) ==
    IF batch = <<>> THEN offsets
    ELSE LET msg == Head(batch)
             tp  == TopicPartition(msg.topic, msg.partition)
         IN  BatchOffsets(Tail(batch), DictSet(offsets, tp, msg.offset + 1))

\* consumer.commit(offsets) as the cluster applies it
Commit(committed, offsets) ==
    [p \in Partitions |->
        Get(offsets, TopicPartition(Topic, p), committed[p])]

\* _send_to_dlq: the topic and the record sent
DlqRecord(c, message) ==
    [ topic       |-> IF c.config.dlq_topic # None THEN c.config.dlq_topic
                      ELSE <<message.topic, "-dlq">>,
      message     |-> message,
      retry_count |-> Get(message, "retry_count", 0) + 1 ]

\* Mutant: the offsets are committed before the handler is called.
_process_batch_CommitAhead == <<"commit", "handler">>

\* _process_batch: the statements of its try block, in order
_process_batch == <<"handler", "commit">>

\* What is recorded of the batch being processed, and of the run: the
\* messages of the batches whose handler raised, the offsets dispatched to
\* the handler for each partition in dispatch order, the numbers of batches
\* dispatched, of handler invocations ended and of commit calls issued,
\* whether a batch was flushed by
\* timeout, and the time of the last append to the open batch (0 when it is
\* empty).
NoTrace(failed) ==
    [ batch |-> <<>>, handler |-> "none", commits |-> <<>>, dlq_sends |-> <<>>,
      done |-> FALSE, failed |-> failed,
      dispatched |-> [p \in Partitions |-> <<>>],
      batches |-> 0, handler_calls |-> 0, commit_calls |-> 0, timed |-> FALSE,
      appended_at |-> 0 ]
ForgetBatch(tr) ==
    [ tr EXCEPT !.batch = <<>>, !.handler = "none", !.commits = <<>>,
                !.dlq_sends = <<>>, !.done = FALSE ]
\* The record of a batch is dropped at the first step after its end.
Fresh == IF trace.done THEN ForgetBatch(trace) ELSE trace

\* The offsets of partition p's messages in a sequence of messages, in order.
RECURSIVE OffsetsOf(_, _)
OffsetsOf(messages, p) ==
    IF messages = <<>> THEN <<>>
    ELSE (IF Head(messages).partition = p THEN <<Head(messages).offset>> ELSE <<>>)
         \o OffsetsOf(Tail(messages), p)

\* Where the thread goes on when _flush_batch returns: in stop() when the
\* signal handler called it, else in the poll loop after _add_to_batch or
\* _check_batch_timeout.
Resume(records) ==
    IF runtime.interrupted # NoSignal THEN "stop_join"
    ELSE IF records = <<>> THEN "poll" ELSE "add"

\* Mutant: _flush_batch does not clear the open batch.
FlushBatch_KeepsQueue(c, records, caller) ==
    /\ consumer' = [ c EXCEPT !.last_batch_time = now, !.batch_lock = PollLoop ]
    /\ frame' = [ records |-> records, batch |-> c.batch_queue, step |-> 1,
                  i |-> 0, error |-> NoError ]
    /\ kpc' = _process_batch[1]
    /\ trace' = [ ForgetBatch(trace) EXCEPT
                     !.batch = c.batch_queue,
                     !.dispatched = [p \in Partitions |->
                                        @[p] \o OffsetsOf(c.batch_queue, p)],
                     !.batches = @ + 1,
                     !.timed = @ \/ caller = "_check_batch_timeout",
                     !.appended_at = 0 ]

\* _flush_batch by the thread holding batch_lock: copy, clear, stamp, and
\* enter _process_batch(batch).
FlushBatch(c, records, caller) ==
    /\ consumer' = [ c EXCEPT !.batch_queue = <<>>, !.last_batch_time = now,
                              !.batch_lock = PollLoop ]
    /\ frame' = [ records |-> records, batch |-> c.batch_queue, step |-> 1,
                  i |-> 0, error |-> NoError ]
    /\ kpc' = _process_batch[1]
    /\ trace' = [ ForgetBatch(trace) EXCEPT
                     !.batch = c.batch_queue,
                     !.dispatched = [p \in Partitions |->
                                        @[p] \o OffsetsOf(c.batch_queue, p)],
                     !.batches = @ + 1,
                     !.timed = @ \/ caller = "_check_batch_timeout",
                     !.appended_at = 0 ]

\* The try block of _process_batch goes on with its next statement, or
\* _process_batch returns, and with it _flush_batch; batch_lock is released.
Proceed ==
    IF frame.step < Len(_process_batch)
    THEN /\ kpc' = _process_batch[frame.step + 1]
         /\ frame' = [ frame EXCEPT !.step = @ + 1 ]
         /\ UNCHANGED consumer
    ELSE /\ kpc' = Resume(frame.records)
         /\ frame' = [ frame EXCEPT !.batch = <<>>, !.step = 0 ]
         /\ consumer' = [ consumer EXCEPT !.batch_lock = Unlocked ]

\* No breaker beside the consumer.
ConsumerInit(c) ==
    /\ consumer = c
    /\ broker = [ position  |-> [p \in Partitions |-> 0],
                  committed |-> [p \in Partitions |-> 0] ]
    /\ kpc = "new"
    /\ frame = [ records |-> <<>>, batch |-> <<>>, step |-> 0, i |-> 0,
                 error |-> NoError ]
    /\ trace = NoTrace({})
    /\ runtime = [ interrupted |-> NoSignal, signals |-> 0, stops |-> 0,
                   released |-> 0, closed |-> {},
                   lag_monitors |-> 0, poll_loops |-> 0, in_handle |-> FALSE ]
    /\ now = 1
    /\ breaker = Absent /\ pc = Absent /\ arg = Absent /\ event = Absent
    /\ history = Absent /\ started = Absent /\ streak = Absent
    /\ half_open_successes = Absent

InitConsumer ==
    \E bs \in BatchSizes, bt \in BatchTimeouts, dlq \in BOOLEAN,
       eh \in ErrorHandlers :
       ConsumerInit(OptimizedKafkaConsumer(ConsumerConfig(bs, bt, dlq), eh, 1))

\* The consumers of one batch size, for the specifications of start() and
\* stop().
InitLifecycle ==
    \E dlq \in BOOLEAN, eh \in ErrorHandlers :
       ConsumerInit(OptimizedKafkaConsumer(ConsumerConfig(2, 1000, dlq), eh, 1))

\* start(): running = True, the worker threads and the lag monitor are
\* started, then _consume_messages() is entered.
StartThreads ==
    /\ consumer' = [ consumer EXCEPT !.running = TRUE,
                         !.processing_threads = @ + consumer.config.num_workers ]
    /\ runtime' = [ runtime EXCEPT !.lag_monitors = @ + 1, !.poll_loops = @ + 1 ]

\* start() by the main thread
Start ==
    /\ kpc = "new"
    /\ StartThreads
    /\ kpc' = "poll"
    /\ UNCHANGED <<now, broker, frame, trace, bvars>>

\* start() is called once more, by another thread, while the first caller
\* is in the poll loop.  The second caller's loop runs the same code; its
\* steps are not interleaved here.
StartAgain ==
    /\ kpc \notin {"new", "returned"}
    /\ consumer.running
    /\ runtime.poll_loops = 1
    /\ StartThreads
    /\ UNCHANGED <<now, broker, kpc, frame, trace, bvars>>

\* _consume_messages: consumer.poll() returns, for each partition, some of
\* the records from the fetch position on, at most max_poll_records in all;
\* the partitions come in either order.
Poll ==
    /\ kpc = "poll"
    /\ consumer.running
    /\ \E n \in [Partitions -> 0..consumer.config.max_poll_records],
          first \in Partitions :
          LET second == CHOOSE q \in Partitions : q # first
          IN  /\ n[first] + n[second] <= consumer.config.max_poll_records
              /\ \A p \in Partitions : broker.position[p] + n[p] <= LogEnd
              /\ frame' = [ frame EXCEPT
                                !.records = Fetch(first, n[first]) \o Fetch(second, n[second]) ]
              /\ broker' = [ broker EXCEPT
                                !.position = [p \in Partitions |-> @[p] + n[p]] ]
              /\ kpc' = IF n[first] + n[second] = 0 THEN "check_timeout" ELSE "add"
    /\ trace' = Fresh
    /\ UNCHANGED <<now, consumer, runtime, bvars>>

\* What consumer.poll() raises: a KafkaError, such as a lost connection to
\* the cluster, or another exception.
PollErrors == {"KafkaError", "Exception"}

\* _consume_messages: consumer.poll() raises; `except KafkaError` or
\* `except Exception` logs the error, whichever it is
PollRaises ==
    /\ kpc = "poll"
    /\ consumer.running
    /\ \E error \in PollErrors : kpc' = "backoff"
    /\ trace' = Fresh
    /\ UNCHANGED <<now, consumer, broker, frame, runtime, bvars>>

\* _consume_messages: time.sleep(1) of the except block returns and the
\* loop tests self.running again; the clock ticks on its own
Backoff ==
    /\ kpc = "backoff"
    /\ kpc' = "poll"
    /\ UNCHANGED <<now, consumer, broker, frame, trace, runtime, bvars>>

\* Mutant: the batch is flushed when it holds more than batch_size messages.
BatchFull_Exceeds(c) == Len(c.batch_queue) > c.config.batch_size

\* _add_to_batch: `len(self.batch_queue) >= self.config.batch_size`
BatchFull(c) == Len(c.batch_queue) >= c.config.batch_size

\* Mutant: the timeout must be exceeded, not reached.
TimedOut_Strict(c, t) == (t - c.last_batch_time) * 1000 > c.config.batch_timeout_ms

\* _check_batch_timeout: `elapsed >= self.config.batch_timeout_ms` at time t
TimedOut(c, t) == (t - c.last_batch_time) * 1000 >= c.config.batch_timeout_ms

\* _add_to_batch(record) for the next record of the poll
AddToBatch ==
    /\ kpc = "add"
    /\ consumer.batch_lock = Unlocked
    /\ LET c == [ consumer EXCEPT
                     !.batch_queue = Append(@, Message(Head(frame.records))) ]
       IN  IF BatchFull(c)
           THEN FlushBatch(c, Tail(frame.records), "_add_to_batch")
           ELSE /\ consumer' = c
                /\ frame' = [ frame EXCEPT !.records = Tail(@) ]
                /\ kpc' = Resume(Tail(frame.records))
                /\ trace' = [ Fresh EXCEPT !.appended_at = now ]
    /\ UNCHANGED <<now, broker, runtime, bvars>>

\* _check_batch_timeout() after a poll that returned nothing
CheckBatchTimeout ==
    /\ kpc = "check_timeout"
    /\ IF TimedOut(consumer, now) /\ consumer.batch_queue # <<>>
       THEN /\ consumer.batch_lock = Unlocked
            /\ FlushBatch(consumer, <<>>, "_check_batch_timeout")
       ELSE /\ kpc' = "poll"
            /\ trace' = Fresh
            /\ UNCHANGED <<consumer, frame>>
    /\ UNCHANGED <<now, broker, runtime, bvars>>

\* Whether _process_batch returns after the statement in hand.
Returning == frame.step >= Len(_process_batch)

\* _handle_batch_error(batch, error) is entered.
EnterHandleError(error) ==
    /\ kpc' = "handle_error"
    /\ frame' = [ frame EXCEPT !.i = 1, !.error = error ]
    /\ UNCHANGED consumer

\* _handle_batch_error goes on with the next message of the batch, or
\* returns, and with it _process_batch and _flush_batch.
NextMessage(tr) ==
    IF frame.i < Len(frame.batch)
    THEN /\ frame' = [ frame EXCEPT !.i = @ + 1 ]
         /\ trace' = tr
         /\ UNCHANGED <<kpc, consumer>>
    ELSE /\ frame' = [ frame EXCEPT !.batch = <<>>, !.step = 0, !.i = 0,
                                    !.error = NoError ]
         /\ trace' = [ tr EXCEPT !.done = TRUE ]
         /\ kpc' = Resume(frame.records)
         /\ consumer' = [ consumer EXCEPT !.batch_lock = Unlocked ]

\* _process_batch: self.message_handler(batch) returns
HandlerReturns ==
    /\ kpc = "handler"
    /\ trace' = [ trace EXCEPT !.handler = "returned", !.handler_calls = @ + 1,
                               !.done = Returning ]
    /\ Proceed
    /\ UNCHANGED <<now, broker, runtime, bvars>>

\* Mutant: the except block of _process_batch commits the offsets.
HandlerRaises_ThenCommit ==
    /\ kpc = "handler"
    /\ trace' = [ trace EXCEPT !.handler = "raised", !.handler_calls = @ + 1 ]
    /\ kpc' = "commit"
    /\ frame' = [ frame EXCEPT !.step = Len(_process_batch) ]
    /\ UNCHANGED <<now, consumer, broker, runtime, bvars>>

\* Mutant: the handler's exception is caught nowhere and ends the thread
\* of the poll loop.
HandlerRaises_Propagates ==
    /\ kpc = "handler"
    /\ trace' = [ trace EXCEPT
                     !.handler = "raised",
                     !.handler_calls = @ + 1,
                     !.failed = @ \cup { <<frame.batch[k].partition, frame.batch[k].offset>> :
                                           k \in 1..Len(frame.batch) } ]
    /\ kpc' = "raised"
    /\ consumer' = [ consumer EXCEPT !.batch_lock = Unlocked ]
    /\ UNCHANGED <<now, broker, frame, runtime, bvars>>

\* _process_batch: self.message_handler(batch) raises
HandlerRaises ==
    /\ kpc = "handler"
    /\ trace' = [ trace EXCEPT
                     !.handler = "raised",
                     !.handler_calls = @ + 1,
                     !.failed = @ \cup { <<frame.batch[k].partition, frame.batch[k].offset>> :
                                           k \in 1..Len(frame.batch) } ]
    /\ EnterHandleError("handler_error")
    /\ UNCHANGED <<now, broker, runtime, bvars>>

\* _commit_batch_offsets: consumer.commit(offsets) succeeds; it cannot on a
\* closed consumer
CommitSucceeds ==
    /\ kpc = "commit"
    /\ "consumer" \notin runtime.closed
    /\ LET offsets == BatchOffsets(frame.batch, <<>>)
       IN  /\ broker' = [ broker EXCEPT !.committed = Commit(@, offsets) ]
           /\ trace' = [ trace EXCEPT !.commits = Append(@, offsets),
                                      !.commit_calls = @ + 1,
                                      !.done = Returning ]
    /\ Proceed
    /\ UNCHANGED <<now, runtime, bvars>>

\* _commit_batch_offsets: consumer.commit(offsets) raises CommitFailedError,
\* which is logged
CommitFails ==
    /\ kpc = "commit"
    /\ trace' = [ trace EXCEPT
                     !.commits = Append(@, BatchOffsets(frame.batch, <<>>)),
                     !.commit_calls = @ + 1,
                     !.done = Returning ]
    /\ Proceed
    /\ UNCHANGED <<now, broker, runtime, bvars>>

\* _commit_batch_offsets: consumer.commit(offsets) raises another
\* exception, which only the except block of _process_batch catches
CommitRaises ==
    /\ kpc = "commit"
    /\ trace' = [ trace EXCEPT
                     !.commits = Append(@, BatchOffsets(frame.batch, <<>>)),
                     !.commit_calls = @ + 1 ]
    /\ EnterHandleError("commit_error")
    /\ UNCHANGED <<now, broker, runtime, bvars>>

\* _handle_batch_error: the custom error_handler raises for the message;
\* the except of the loop body logs it
ErrorHandlerRaises ==
    /\ kpc = "handle_error"
    /\ consumer.error_handler = "custom"
    /\ NextMessage(trace)
    /\ UNCHANGED <<now, broker, runtime, bvars>>

\* _handle_batch_error: error_handler returns and _send_to_dlq(msg, error)
\* sends the record; a send that fails is logged inside _send_to_dlq
SendToDlq ==
    /\ kpc = "handle_error"
    /\ consumer.config.enable_dlq /\ consumer.dlq_producer
    /\ \E acked \in (IF "dlq_producer" \in runtime.closed THEN {FALSE} ELSE BOOLEAN) :
          NextMessage([ trace EXCEPT
              !.dlq_sends = Append(@, [ sent  |-> DlqRecord(consumer, frame.batch[frame.i]),
                                        acked |-> acked ]) ])
    /\ UNCHANGED <<now, broker, runtime, bvars>>

\* _handle_batch_error: error_handler returns and there is no dead-letter
\* producer
SkipDlq ==
    /\ kpc = "handle_error"
    /\ ~(consumer.config.enable_dlq /\ consumer.dlq_producer)
    /\ NextMessage(trace)
    /\ UNCHANGED <<now, broker, runtime, bvars>>

\* The clock advances.
ClockTick ==
    /\ kpc # "new"
    /\ now < MaxTime
    /\ now' = now + 1
    /\ trace' = Fresh
    /\ UNCHANGED <<consumer, broker, kpc, frame, runtime, bvars>>

NextConsumer ==
    \/ Start
    \/ Poll
    \/ PollRaises
    \/ Backoff
    \/ AddToBatch
    \/ CheckBatchTimeout
    \/ HandlerReturns
    \/ HandlerRaises
    \/ CommitSucceeds
    \/ CommitFails
    \/ CommitRaises
    \/ ErrorHandlerRaises
    \/ SendToDlq
    \/ SkipDlq
    \/ ClockTick

SpecConsumer == InitConsumer /\ [][NextConsumer]_vars

\* -------------------------------------------------- stop() and the signals

\* Whether the thread is inside stop().
InStop == runtime.interrupted # NoSignal

\* SIGTERM or SIGINT is delivered while the main thread is in start() or
\* after it: Python runs _signal_handler on the main thread, on top of
\* whatever that thread was doing, and the handler calls stop(), whose
\* first statement is running = False.  No signal is delivered while the
\* handler of another one runs.
Signal ==
    /\ kpc # "new"
    /\ ~InStop
    /\ runtime.signals < Cardinality(Signals)
    /\ runtime' = [ runtime EXCEPT !.interrupted = kpc, !.signals = @ + 1,
                                   !.released = 0 ]
    /\ consumer' = [ consumer EXCEPT !.running = FALSE ]
    /\ kpc' = "stop_flush"
    /\ trace' = Fresh
    /\ UNCHANGED <<now, broker, frame, bvars>>

\* Mutant: stop() does not flush the open batch.
StopFlush_Skipped ==
    /\ kpc = "stop_flush"
    /\ consumer.batch_lock = Unlocked
    /\ kpc' = "stop_join"
    /\ UNCHANGED <<now, consumer, broker, frame, trace, runtime, bvars>>

\* Mutant: stop() flushes the open batch without taking batch_lock.
StopFlush_NoLock ==
    /\ kpc = "stop_flush"
    /\ IF consumer.batch_queue # <<>>
       THEN FlushBatch(consumer, frame.records, "stop")
       ELSE /\ kpc' = "stop_join"
            /\ UNCHANGED <<consumer, frame, trace>>
    /\ UNCHANGED <<now, broker, runtime, bvars>>

\* stop(): `with self.batch_lock: if self.batch_queue: self._flush_batch()`.
\* threading.Lock is not reentrant: the acquire waits while the lock is
\* held, by whichever thread.
StopFlush ==
    /\ kpc = "stop_flush"
    /\ consumer.batch_lock = Unlocked
    /\ IF consumer.batch_queue # <<>>
       THEN FlushBatch(consumer, frame.records, "stop")
       ELSE /\ kpc' = "stop_join"
            /\ UNCHANGED <<consumer, frame, trace>>
    /\ UNCHANGED <<now, broker, runtime, bvars>>

\* stop(): the worker threads, which see running = False, are joined, and
\* self.consumer.close() is called.
StopClose ==
    /\ kpc = "stop_join"
    /\ runtime' = [ runtime EXCEPT !.closed = @ \cup {"consumer"},
                                   !.released = @ + 1 ]
    /\ kpc' = "stop_close_dlq"
    /\ UNCHANGED <<now, consumer, broker, frame, trace, bvars>>

\* stop(): `if self.dlq_producer: self.dlq_producer.close()`; stop()
\* returns, and the signal handler with it, to the interrupted code.
StopCloseDlq ==
    /\ kpc = "stop_close_dlq"
    /\ runtime' = [ runtime EXCEPT
                       !.closed = IF consumer.dlq_producer
                                  THEN @ \cup {"dlq_producer"} ELSE @,
                       !.released = IF consumer.dlq_producer THEN @ + 1 ELSE @,
                       !.stops = @ + 1,
                       !.interrupted = NoSignal ]
    /\ kpc' = runtime.interrupted
    /\ UNCHANGED <<now, consumer, broker, frame, trace, bvars>>

\* _consume_messages: `while self.running` is false; start() returns.
LoopExit ==
    /\ kpc = "poll"
    /\ ~consumer.running
    /\ kpc' = "returned"
    /\ runtime' = [ runtime EXCEPT !.poll_loops = @ - 1 ]
    /\ trace' = Fresh
    /\ UNCHANGED <<now, consumer, broker, frame, bvars>>

NextLifecycle ==
    \/ NextConsumer
    \/ Signal
    \/ StopFlush
    \/ StopClose
    \/ StopCloseDlq
    \/ LoopExit

\* The consumer with its signal handlers.
SpecLifecycle == InitLifecycle /\ [][NextLifecycle]_vars

\* The consumer whose start() is called a second time.
SpecStartTwice == InitLifecycle /\ [][NextConsumer \/ StartAgain]_vars

\* ------------------------------------------------------- the lag monitor

\* _monitor_lag, in the thread start() gave it: while running, it calls
\* self.consumer.assignment(), then position() and end_offsets() for each
\* partition.  The calls take time: the thread is inside the handle from
\* the first call to the return of the last.  The gauge it sets is read
\* nowhere in the program.
MonitorLagEnter ==
    /\ runtime.lag_monitors > 0
    /\ consumer.running
    /\ ~runtime.in_handle
    /\ runtime' = [ runtime EXCEPT !.in_handle = TRUE ]
    /\ UNCHANGED <<now, consumer, broker, kpc, frame, trace, bvars>>

\* _monitor_lag: the last call returns; time.sleep(30)
MonitorLagLeave ==
    /\ runtime.in_handle
    /\ runtime' = [ runtime EXCEPT !.in_handle = FALSE ]
    /\ UNCHANGED <<now, consumer, broker, kpc, frame, trace, bvars>>

\* The consumer with its lag monitor.
SpecLagMonitor ==
    InitLifecycle /\ [][NextConsumer \/ MonitorLagEnter \/ MonitorLagLeave]_vars

\* ---------------------------------------------------------------- claims
\* The steps that read the `state` property.
QueryOps == {"state", "call_enter", "after_failure"}
\* The steps that record a call outcome.
RecordOps == {"on_success", "on_failure"}

\* Equality of two fractions with positive denominators.
RateEq(r1, r2) == r1[1] * r2[2] = r2[1] * r1[2]
\* The last n elements of a sequence.
LastN(s, n) == SubSeq(s, Len(s) - n + 1, Len(s))
Min(a, b) == IF a <= b THEN a ELSE b
\* The number of FALSE flags of a sequence of 'success' flags.
RECURSIVE FailedFlags(_)
FailedFlags(flags) ==
    IF flags = <<>> THEN 0
    ELSE (IF Head(flags) THEN 0 ELSE 1) + FailedFlags(Tail(flags))

\* Whether recovery_timeout has not yet elapsed at time t for breaker b,
\* counted from the last failure or from the time the circuit opened.
NotElapsed(b, t) ==
    \/ t - b._last_failure_time < b.recovery_timeout
    \/ t - b.metrics.circuit_opened_at < b.recovery_timeout

\* C1: a failure that brings the run of consecutive failures (no success,
\* no reset() in between) to failure_threshold or more leaves the breaker
\* OPEN.
C1_OpenByNthFailure ==
    (event.op = "on_failure" /\ streak >= breaker.failure_threshold)
        => breaker._state = OPEN

\* The failure_threshold-th failure of a run, on a CLOSED breaker whose
\* failure rate rule cannot trip, opened the circuit.
C1_Witness ==
    /\ event.op = "on_failure"
    /\ event.pre._state = CLOSED
    /\ streak = breaker.failure_threshold
    /\ breaker.failure_rate_threshold = <<2, 1>>
    /\ breaker._state = OPEN

\* C2: a call() that checks the state while the breaker is OPEN and
\* recovery_timeout has not elapsed is rejected: the breaker stays OPEN and
\* the call goes to the rejection path, never to the wrapped operation.
C2_RejectedWhileOpen ==
    (/\ event.op = "call_enter"
     /\ event.pre._state = OPEN
     /\ NotElapsed(event.pre, now))
        => /\ pc[event.thread] = "rejecting"
           /\ breaker._state = OPEN

\* A call rejected after time has passed since the failure, but less than
\* recovery_timeout.
C2_Witness ==
    /\ event.op = "call_enter"
    /\ event.pre._state = OPEN
    /\ now > event.pre._last_failure_time
    /\ now - event.pre._last_failure_time < breaker.recovery_timeout
    /\ pc[event.thread] = "rejecting"

\* C3 as stated: once recovery_timeout has elapsed since the circuit opened,
\* the next read of the state moves the breaker to HALF_OPEN.
C3_SinceOpened ==
    (/\ event.op \in QueryOps
     /\ event.pre._state = OPEN
     /\ now - event.pre.metrics.circuit_opened_at >= breaker.recovery_timeout)
        => breaker._state = HALF_OPEN

\* C3, amended: a read of the state (a state query or a call attempt) moves
\* an OPEN breaker to HALF_OPEN, with one listener notification, exactly
\* when recovery_timeout has elapsed since the last recorded failure; any
\* other read, one of a HALF_OPEN breaker included, changes nothing and
\* notifies nobody.
C3_LazyHalfOpenOnce ==
    event.op \in QueryOps =>
        IF /\ event.pre._state = OPEN
           /\ now - event.pre._last_failure_time >= breaker.recovery_timeout
        THEN /\ breaker._state = HALF_OPEN
             /\ breaker.listener_calls = <<HALF_OPEN>>
        ELSE /\ breaker = event.pre

\* A state query found the breaker OPEN with recovery_timeout elapsed and
\* moved it to HALF_OPEN.
C3_Witness ==
    /\ event.op = "state"
    /\ event.pre._state = OPEN
    /\ now - event.pre._last_failure_time >= breaker.recovery_timeout
    /\ breaker._state = HALF_OPEN

\* C4: a failure recorded while HALF_OPEN leaves the breaker OPEN, whatever
\* success_count was, with last_failure_time set to the time of the failure.
C4_HalfOpenFailureReopens ==
    (event.op = "on_failure" /\ event.pre._state = HALF_OPEN)
        => /\ breaker._state = OPEN
           /\ breaker._last_failure_time = now
           /\ breaker.metrics.last_failure_time = now

\* A HALF_OPEN breaker that had counted a success failed and reopened, later
\* than its previous failure.
C4_Witness ==
    /\ event.op = "on_failure"
    /\ event.pre._state = HALF_OPEN
    /\ event.pre._success_count > 0
    /\ event.pre._last_failure_time < now
    /\ breaker._state = OPEN

\* C5: a success recorded while HALF_OPEN closes the breaker exactly when
\* the successes recorded since HALF_OPEN was entered reach
\* success_threshold, failure_count is then 0, and with fewer the breaker
\* stays HALF_OPEN.
C5_CloseAtSuccessThreshold ==
    /\ (event.op = "on_success" /\ event.pre._state = HALF_OPEN)
          => IF half_open_successes >= breaker.success_threshold
             THEN breaker._state = CLOSED /\ breaker._failure_count = 0
             ELSE breaker._state = HALF_OPEN
    /\ breaker._state = HALF_OPEN
          => half_open_successes < breaker.success_threshold

\* The second success of a HALF_OPEN breaker with success_threshold 2
\* closed it.
C5_Witness ==
    /\ event.op = "on_success"
    /\ event.pre._state = HALF_OPEN
    /\ event.pre._success_count = 1
    /\ breaker.success_threshold = 2
    /\ breaker._state = CLOSED

\* C6: every change of the breaker's state is CLOSED -> OPEN or
\* HALF_OPEN -> OPEN made by a recorded failure, OPEN -> HALF_OPEN made by
\* a read of the state, HALF_OPEN -> CLOSED made by a recorded success, or
\* a change to CLOSED made by reset().
C6_StateMachine ==
    LET from == event.pre._state
        to == breaker._state
    IN  from # to =>
            \/ from = CLOSED /\ to = OPEN /\ event.op = "on_failure"
            \/ from = OPEN /\ to = HALF_OPEN /\ event.op \in QueryOps
            \/ from = HALF_OPEN /\ to = CLOSED /\ event.op = "on_success"
            \/ from = HALF_OPEN /\ to = OPEN /\ event.op = "on_failure"
            \/ to = CLOSED /\ event.op = "reset"

\* A call admitted before the circuit opened succeeded while the breaker
\* was OPEN, and the breaker stayed OPEN.
C6_Witness ==
    /\ event.op = "on_success"
    /\ event.pre._state = OPEN
    /\ breaker._state = OPEN

\* C7: after every transition (every step in which the listener was
\* notified or the state changed) failure_count and success_count are 0.
C7_CountersZeroedOnTransition ==
    (breaker.listener_calls # <<>> \/ event.pre._state # breaker._state)
        => /\ breaker._failure_count = 0
           /\ breaker._success_count = 0

\* The circuit opened from a CLOSED breaker that had counted a failure.
C7_Witness ==
    /\ breaker.listener_calls = <<OPEN>>
    /\ event.pre._state = CLOSED
    /\ event.pre._failure_count > 0

\* C8: the rolling history never holds more than window_size entries, it
\* is the last min(window_size, recorded) recorded outcomes in order, and
\* recording into a full history drops its oldest entry and nothing else.
C8_BoundedRollingHistory ==
    LET calls == breaker.metrics.calls
        W == breaker.metrics.window_size
        old == event.pre.metrics.calls
    IN  /\ Len(calls) <= W
        /\ Len(calls) = Min(W, Len(history))
        /\ \A i \in 1..Len(calls) :
              calls[i].success = LastN(history, Len(calls))[i]
        /\ (event.op \in RecordOps /\ Len(old) = W)
              => /\ Len(calls) = W
                 /\ \A i \in 1..(W - 1) : calls[i] = old[i + 1]

\* An outcome was recorded into a full history whose oldest entry differed
\* from the entry that is now the oldest.
C8_Witness ==
    /\ event.op \in RecordOps
    /\ Len(event.pre.metrics.calls) = breaker.metrics.window_size
    /\ Len(history) > breaker.metrics.window_size
    /\ Head(event.pre.metrics.calls) # Head(breaker.metrics.calls)

\* The failure rate the claim C9 describes, for a number of calls n: the
\* failures among the last min(W, n) recorded outcomes over min(W, n), and
\* 0.0 for n = 0.
ClaimedRate(n) ==
    LET k == Min(breaker.metrics.window_size, n)
    IN  IF n = 0 THEN <<0, 1>>
        ELSE <<FailedFlags(LastN(history, Min(k, Len(history)))), k>>

\* C9 as stated: get_failure_rate() is F / min(W, total_calls).
C9_RateOverTotalCalls ==
    RateEq(get_failure_rate(breaker.metrics),
           ClaimedRate(breaker.metrics.total_calls))

\* C9, amended: get_failure_rate() is F / min(W, recorded), where recorded
\* = successful_calls + failed_calls is the number of calls whose outcome
\* was recorded (a rejected call counts in total_calls only) and F the
\* number of failures among the last min(W, recorded) of them; it is 0.0
\* when no outcome has been recorded.
C9_RateOverRecordedCalls ==
    RateEq(get_failure_rate(breaker.metrics),
           ClaimedRate(breaker.metrics.successful_calls
                       + breaker.metrics.failed_calls))

\* Two outcomes are recorded, a success and a failure, and a call was
\* rejected as well: the rate is 1/2 while total_calls exceeds 2.
C9_Witness ==
    /\ Len(breaker.metrics.calls) = 2
    /\ get_failure_rate(breaker.metrics) = <<1, 2>>
    /\ breaker.metrics.total_calls > 2

\* C10: the rejection of a call adds one to rejected_calls, leaves the
\* state and the rolling history as they were, and ends with the fallback's
\* result for the call's arguments, or with CircuitBreakerError naming the
\* breaker when no fallback is configured; the check that found the
\* breaker OPEN changed nothing.
C10_RejectionPath ==
    /\ event.op = "reject"
          => /\ breaker.metrics.rejected_calls
                   = event.pre.metrics.rejected_calls + 1
             /\ breaker._state = event.pre._state
             /\ breaker.metrics.calls = event.pre.metrics.calls
             /\ event.result =
                   IF breaker.fallback_function
                   THEN Return(<<"fallback", Args[event.thread]>>)
                   ELSE Raise(<<"CircuitBreakerError", name>>)
    /\ (event.op = "call_enter" /\ pc[event.thread] = "rejecting")
          => breaker = event.pre

\* A rejected call returned the fallback's result.
C10_Witness ==
    /\ event.op = "reject"
    /\ event.pre._state = OPEN
    /\ breaker.fallback_function
    /\ event.result.kind = "return"

\* C11: with a fallback configured, a call whose operation failed with the
\* expected error class while the breaker was HALF_OPEN returns the
\* fallback's result: the step that ends the call, taken right after the
\* step that recorded the failure in HALF_OPEN, returns it.
C11_FallbackOnHalfOpenFailure ==
    [][ (/\ event.op = "on_failure"
         /\ event.pre._state = HALF_OPEN
         /\ breaker.fallback_function
         /\ event'.op = "after_failure"
         /\ event'.thread = event.thread)
            => event'.result = Return(fallback_result(Args[event.thread])) ]_vars

\* C12: an error that is not of the expected class propagates to the caller
\* and leaves state, failure_count, success_count, last_failure_time, the
\* rolling history and the success/failure/rejection counters as they were.
C12_UnexpectedErrorLeavesBreaker ==
    event.op = "other_error" =>
        /\ event.result = Raise(OtherError(Args[event.thread]))
        /\ breaker._state = event.pre._state
        /\ breaker._failure_count = event.pre._failure_count
        /\ breaker._success_count = event.pre._success_count
        /\ breaker._last_failure_time = event.pre._last_failure_time
        /\ breaker.metrics.calls = event.pre.metrics.calls
        /\ breaker.metrics.total_calls = event.pre.metrics.total_calls
        /\ breaker.metrics.successful_calls = event.pre.metrics.successful_calls
        /\ breaker.metrics.failed_calls = event.pre.metrics.failed_calls
        /\ breaker.metrics.rejected_calls = event.pre.metrics.rejected_calls

\* The probe call of a HALF_OPEN breaker ended with an unexpected error,
\* after failures and a rejection had been counted.
C12_Witness ==
    /\ event.op = "other_error"
    /\ breaker._state = HALF_OPEN
    /\ breaker.metrics.calls # <<>>
    /\ breaker.metrics.rejected_calls > 0

\* C13: an exception raised by a state-change listener does not leave the
\* operation that made the transition: the new state is in place, every
\* registered listener was called with it, and the operation ends as it
\* would without listeners.
C13_ListenerErrorsContained ==
    (event.pre._state # breaker._state \/ event.op = "reset") =>
        /\ breaker.propagated = NoError
        /\ event.result.kind = "raise" =>
               event.result.value = ExpectedError(Args[event.thread])
        /\ event.op = "on_success" =>
               event.result = Return(func_result(Args[event.thread]))
        /\ event.op = "reset" => breaker._state = CLOSED
        /\ breaker.listener_calls =
               [i \in 1..Len(breaker._state_change_listeners) |-> breaker._state]

\* The failure that opened the circuit notified a raising listener first,
\* and the second listener was notified all the same.
C13_Witness ==
    /\ event.op = "on_failure"
    /\ event.pre._state = CLOSED
    /\ breaker._state = OPEN
    /\ breaker._state_change_listeners[1] = "raises"
    /\ breaker.listener_calls = <<OPEN, OPEN>>

\* C14: while a thread's wrapped operation runs, the state lock is free:
\* a state query, another thread's entry into call(), its rejection and the
\* recording of its outcome can all take their step.
C14_OperationOutsideLock ==
    \A t \in Threads : pc[t] = "running" =>
        /\ breaker._state_lock = Unlocked
        /\ ENABLED StateQuery
        /\ \A u \in Threads \ {t} :
              /\ (pc[u] = "idle" /\ started < MaxCalls) => ENABLED CallEnter(u)
              /\ pc[u] = "rejecting" => ENABLED Reject(u)
              /\ pc[u] = "running" => ENABLED OpSuccess(u)

\* A call of t2 was rejected from start to end while the operation of t1
\* was running.
C14_Witness ==
    /\ pc["t1"] = "running"
    /\ event.op = "reject"
    /\ event.thread = "t2"

\* C15: reset() leaves the breaker CLOSED with failure_count = 0 and
\* success_count = 0, whatever the state before, so that a call() made now
\* finds the state CLOSED and invokes the wrapped operation.
C15_ResetCloses ==
    event.op = "reset" =>
        /\ breaker._state = CLOSED
        /\ breaker._failure_count = 0
        /\ breaker._success_count = 0
        /\ state(breaker, now)._state = CLOSED

\* reset() closed an OPEN breaker whose recovery timeout had not elapsed:
\* a call() before it would have been rejected.
C15_Witness ==
    /\ event.op = "reset"
    /\ event.pre._state = OPEN
    /\ NotElapsed(event.pre, now)
    /\ state(event.pre, now)._state = OPEN

\* The partitions that have a message in the batch, and the greatest offset
\* of a partition's messages in it.
PartitionsOf(batch) ==
    { TopicPartition(batch[k].topic, batch[k].partition) : k \in 1..Len(batch) }
MaxOffset(batch, tp) ==
    CHOOSE o \in { batch[k].offset : k \in { j \in 1..Len(batch) :
                       TopicPartition(batch[j].topic, batch[j].partition) = tp } } :
        \A k \in 1..Len(batch) :
            TopicPartition(batch[k].topic, batch[k].partition) = tp => batch[k].offset <= o

\* C16: when _process_batch has ended for a batch whose handler returned,
\* exactly one commit call was issued for it, and that call maps every
\* partition with a message in the batch to the greatest offset of that
\* partition's messages in the batch, plus one.
C16_OneCommitOfMaxPlusOne ==
    (trace.done /\ trace.handler = "returned") =>
        /\ Len(trace.commits) = 1
        /\ DOMAIN trace.commits[1] = PartitionsOf(trace.batch)
        /\ \A tp \in PartitionsOf(trace.batch) :
              trace.commits[1][tp] = MaxOffset(trace.batch, tp) + 1

\* A batch of three messages of two partitions, two of them of the same
\* partition, was handled and committed.
C16_Witness ==
    /\ trace.done
    /\ trace.handler = "returned"
    /\ Len(trace.batch) = 3
    /\ Cardinality(PartitionsOf(trace.batch)) = 2
    /\ Len(trace.commits) = 1

\* C17: no commit call is issued for a batch whose handler raised.
C17_NoCommitOfFailedBatch ==
    trace.handler = "raised" => trace.commits = <<>>

\* _process_batch has ended for a batch of several messages whose handler
\* raised.
C17_Witness ==
    /\ trace.done
    /\ trace.handler = "raised"
    /\ Len(trace.batch) >= 2
    /\ trace.commits = <<>>

\* C18: every step that issues a commit call starts after the handler has
\* returned for the batch in hand, and the call carries the offsets of that
\* batch.
C18_NoCommitAhead ==
    [][ Len(trace'.commits) > Len(trace.commits) =>
            /\ trace.handler = "returned"
            /\ trace.batch = frame.batch
            /\ DOMAIN trace'.commits[Len(trace'.commits)] = PartitionsOf(frame.batch) ]_vars

\* The offsets of a batch were committed and taken by the cluster.
C18_Witness ==
    /\ trace.commits # <<>>
    /\ trace.handler = "returned"
    /\ \E p \in Partitions : broker.committed[p] = LogEnd

\* C19: the committed offset of a partition never passes a message of a
\* batch whose handler raised, also after later batches succeed.
C19_FailedOffsetsStayUncommitted ==
    \A m \in trace.failed : broker.committed[m[1]] <= m[2]

\* C20: when _process_batch has ended for a batch whose handler raised, with
\* the dead-letter queue enabled, one record per message of the batch was
\* sent to the dead-letter topic, in order, with retry_count one more than
\* the message's.
C20_OneDlqSendPerMessage ==
    (/\ trace.done
     /\ trace.handler = "raised"
     /\ consumer.config.enable_dlq) =>
        /\ Len(trace.dlq_sends) = Len(trace.batch)
        /\ \A k \in 1..Len(trace.dlq_sends) :
              /\ trace.dlq_sends[k].sent.message = trace.batch[k]
              /\ trace.dlq_sends[k].sent.retry_count =
                     Get(trace.batch[k], "retry_count", 0) + 1

\* C28: a failure of poll leaves the poll loop: the thread is never found
\* in the except block that logs the error and sleeps before the next poll.
C28_PollFailureIsFatal ==
    consumer.running => kpc # "backoff"

\* C29: once the handler has raised for a batch the consumer is still
\* running and its thread still inside the poll loop, with the batch lock
\* free between batches: the next poll, the handler's return for a later
\* batch and the commit that follows can take their step.
C29_HandlerFailureIsolated ==
    trace.failed # {} =>
        /\ consumer.running
        /\ kpc \in {"poll", "backoff", "add", "check_timeout",
                     "handler", "commit", "handle_error"}
        /\ kpc = "poll" => ENABLED Poll
        /\ kpc = "add" => ENABLED AddToBatch
        /\ kpc = "handler" => ENABLED HandlerReturns
        /\ kpc = "commit" => ENABLED CommitSucceeds

\* After a batch failed, a later batch with the other message of one of its
\* partitions was handled and its offsets were committed.
C29_Witness ==
    /\ trace.failed # {}
    /\ trace.done
    /\ trace.handler = "returned"
    /\ Len(trace.commits) = 1
    /\ \E k \in 1..Len(trace.batch), m \in trace.failed :
          /\ trace.batch[k].partition = m[1]
          /\ trace.batch[k].offset > m[2]
          /\ broker.committed[m[1]] = trace.batch[k].offset + 1

\* C30: whatever the commit call raises after the handler has returned, the
\* batch is not passed to _handle_batch_error: no error handler call and no
\* dead-letter send is made for it.
C30_CommitFailureContained ==
    trace.handler = "returned" =>
        /\ kpc # "handle_error"
        /\ trace.dlq_sends = <<>>

\* C21: a check of the batch timeout made while the consumer is running,
\* with a non-empty open batch to which nothing was appended for
\* batch_timeout or longer, dispatches that batch to the handler, though it
\* holds fewer than batch_size messages.
C21_TimeoutFlush ==
    [][ (/\ kpc = "check_timeout"
         /\ kpc' # "check_timeout"
         /\ consumer.running
         /\ consumer.batch_queue # <<>>
         /\ (now - trace.appended_at) * 1000 >= consumer.config.batch_timeout_ms)
            => /\ kpc' = "handler"
               /\ trace'.batch = consumer.batch_queue
               /\ Len(trace'.batch) < consumer.config.batch_size
               /\ consumer'.batch_queue = <<>> ]_vars

\* A batch of fewer than batch_size messages is with the handler after a
\* flush by timeout.
C21_Witness ==
    /\ kpc = "handler"
    /\ trace.timed
    /\ trace.batch # <<>>
    /\ Len(trace.batch) < consumer.config.batch_size
    /\ consumer.last_batch_time = now

\* The whole log has been polled, batched and processed.
AllProcessed ==
    /\ \A p \in Partitions : broker.position[p] = LogEnd
    /\ frame.records = <<>>
    /\ consumer.batch_queue = <<>>
    /\ kpc \in {"poll", "backoff", "check_timeout"}
\* The number of records the source emits.
Emitted == LogEnd * Cardinality(Partitions)
\* The open batch is dispatched on reaching batch_size.
NeverOverBatchSize ==
    /\ Len(consumer.batch_queue) < consumer.config.batch_size
    /\ Len(trace.batch) <= consumer.config.batch_size

\* C22 as stated: no batch exceeds batch_size, and when the source has
\* emitted k * batch_size records and the handler never raised, k batches
\* were dispatched and k commit calls issued.
C22_ExactlyKBatches ==
    /\ NeverOverBatchSize
    /\ (/\ AllProcessed
        /\ Emitted % consumer.config.batch_size = 0
        /\ trace.failed = {})
           => /\ trace.batches = Emitted \div consumer.config.batch_size
              /\ trace.commit_calls = Emitted \div consumer.config.batch_size

\* C22: no batch exceeds batch_size, and when the source has emitted
\* k * batch_size records, the handler never raised and no batch was flushed
\* by timeout, k batches were dispatched and k commit calls issued.
C22_ExactlyKBatchesUntimed ==
    /\ NeverOverBatchSize
    /\ (/\ AllProcessed
        /\ Emitted % consumer.config.batch_size = 0
        /\ trace.failed = {}
        /\ ~trace.timed)
           => /\ trace.batches = Emitted \div consumer.config.batch_size
              /\ trace.commit_calls = Emitted \div consumer.config.batch_size

\* All records were processed in full batches, more than one, and each
\* batch got its commit call.
C22_Witness ==
    /\ AllProcessed
    /\ Emitted % consumer.config.batch_size = 0
    /\ trace.failed = {}
    /\ ~trace.timed
    /\ trace.batches > 1
    /\ trace.commit_calls = trace.batches

\* C23: for every partition, the offsets dispatched so far, followed by
\* those in the open batch and those of the poll still to be appended, are
\* the offsets the source returned, in the source's order: 0, 1, ... up to
\* the fetch position.
C23_PartitionOrderPreserved ==
    \A p \in Partitions :
        trace.dispatched[p] \o OffsetsOf(consumer.batch_queue, p)
                            \o OffsetsOf(frame.records, p)
            = [i \in 1..broker.position[p] |-> i - 1]

\* Both partitions were dispatched in full, in more than one batch, one of
\* which mixed the two partitions.
C23_Witness ==
    /\ \A p \in Partitions : Len(trace.dispatched[p]) = LogEnd
    /\ trace.batches > 1
    /\ Cardinality(PartitionsOf(trace.batch)) = 2

\* The thread is processing a flushed batch.
Processing == kpc \in {"handler", "commit", "handle_error"}

\* C24: whenever a signal is delivered to the thread of the poll loop,
\* stop() can take its next step: it is never left waiting for batch_lock.
C24_StopCompletes == kpc = "stop_flush" => ENABLED StopFlush

C26_SecondStopIdle == (InStop /\ runtime.stops >= 1) => ~Processing

\* C27: start() on a started consumer starts nothing: there is one poll
\* loop, one lag monitor and one set of num_workers worker threads.
C27_StartGuarded ==
    /\ runtime.poll_loops <= 1
    /\ runtime.lag_monitors <= 1
    /\ consumer.processing_threads <= consumer.config.num_workers

\* C36: a failure recorded while the breaker is already OPEN (the call was
\* admitted before the circuit opened) leaves it OPEN with both counts 0
\* and the opening time as it was, and sets _last_failure_time to the time
\* of this failure, so that the probe is allowed recovery_timeout after
\* the late failure and not before.
C36_LateFailureMovesDeadline ==
    (event.op = "on_failure" /\ event.pre._state = OPEN)
        => /\ breaker._state = OPEN
           /\ breaker._failure_count = 0
           /\ breaker._success_count = 0
           /\ breaker.metrics.circuit_opened_at = event.pre.metrics.circuit_opened_at
           /\ breaker._last_failure_time = now
           /\ \A t \in now..(MaxTime + 2) :
                 state(breaker, t)._state = HALF_OPEN
                     <=> t - now >= breaker.recovery_timeout

\* A call admitted while CLOSED failed after the circuit had been opened
\* at an earlier time; recovery_timeout counted from the opening has run
\* out, counted from the late failure it has not.
C36_Witness ==
    /\ event.op = "on_failure"
    /\ event.pre._state = OPEN
    /\ event.pre._last_failure_time < now
    /\ now - breaker.metrics.circuit_opened_at >= breaker.recovery_timeout
    /\ state(breaker, now)._state = OPEN

\* C37: a failure on a CLOSED breaker opens the circuit whenever the
\* failures of the rolling history, this one included, divided by its
\* length reach failure_rate_threshold, however few entries it holds; with
\* an empty history and a threshold of at most 1.0 the first failure opens
\* the circuit even if failure_threshold is above 1.
C37_NoMinimumSample ==
    (event.op = "on_failure" /\ event.pre._state = CLOSED)
        => /\ RateGE(<<Failures(breaker.metrics.calls), Len(breaker.metrics.calls)>>,
                     breaker.failure_rate_threshold)
                 => breaker._state = OPEN
           /\ (/\ event.pre.metrics.calls = <<>>
               /\ breaker.failure_rate_threshold[1] <= breaker.failure_rate_threshold[2])
                 => breaker._state = OPEN

\* The first call ever failed and opened a breaker whose failure_threshold
\* is 2.
C37_Witness ==
    /\ event.op = "on_failure"
    /\ event.pre._state = CLOSED
    /\ event.pre.metrics.calls = <<>>
    /\ event.pre.metrics.total_calls = 0
    /\ breaker.failure_threshold > 1
    /\ breaker._state = OPEN

\* C38: reset() sets the state to CLOSED, the two counts to 0 and
\* circuit_opened_at to None, notifies the listeners, and changes nothing
\* else: rolling history, cumulative counters and both last-failure times
\* are as before, and so is the failure rate.
C38_ResetFrame ==
    event.op = "reset"
        => /\ breaker = [ event.pre EXCEPT
                              !._state = CLOSED,
                              !._failure_count = 0,
                              !._success_count = 0,
                              !.metrics.circuit_opened_at = None,
                              !.listener_calls = breaker.listener_calls ]
           /\ get_failure_rate(breaker.metrics) = get_failure_rate(event.pre.metrics)

\* reset() of an OPEN breaker with failures and a rejection on record.
C38_Witness ==
    /\ event.op = "reset"
    /\ event.pre._state = OPEN
    /\ event.pre._last_failure_time # None
    /\ Failures(breaker.metrics.calls) > 0
    /\ breaker.metrics.rejected_calls > 0
    /\ breaker._state = CLOSED

\* C39: between operations, a CLOSED breaker has a failure count below
\* failure_threshold and no success count, an OPEN breaker has both counts
\* 0, and a HALF_OPEN breaker has no failure count and a success count
\* below success_threshold.
C39_CountsByState ==
    /\ breaker._state_lock = Unlocked
    /\ breaker._state = CLOSED
         => /\ 0 <= breaker._failure_count
            /\ breaker._failure_count < breaker.failure_threshold
            /\ breaker._success_count = 0
    /\ breaker._state = OPEN
         => breaker._failure_count = 0 /\ breaker._success_count = 0
    /\ breaker._state = HALF_OPEN
         => /\ breaker._failure_count = 0
            /\ 0 <= breaker._success_count
            /\ breaker._success_count < breaker.success_threshold

\* A breaker closed by the success that reached success_threshold 2, after
\* it had counted a failure while CLOSED.
C39_Witness ==
    /\ event.op = "on_success"
    /\ event.pre._state = HALF_OPEN
    /\ event.pre._success_count = 1
    /\ breaker._state = CLOSED
    /\ Len(history) >= 3

\* C40: the counters add up, total_calls = successful_calls + failed_calls
\* + rejected_calls, and the rolling history holds the last window_size
\* recorded outcomes, one per successful or failed call and none for a
\* rejection.
C40_CountersAddUp ==
    LET m == breaker.metrics
    IN  /\ m.total_calls = m.successful_calls + m.failed_calls + m.rejected_calls
        /\ m.successful_calls + m.failed_calls = Len(history)
        /\ m.failed_calls = FailedFlags(history)
        /\ Len(m.calls) = Min(m.window_size, Len(history))
        /\ m.calls = [i \in 1..Len(m.calls) |->
                         [success |-> LastN(history, Len(m.calls))[i]]]

\* A call was rejected while another thread was inside call(), after more
\* outcomes had been recorded than the window holds.
C40_Witness ==
    /\ event.op = "reject"
    /\ breaker.metrics.rejected_calls > 0
    /\ breaker.metrics.failed_calls > 0
    /\ Len(history) > breaker.metrics.window_size
    /\ \E t \in Threads : pc[t] = "failed"

\* The operations that take the state lock.
TakesStateLock ==
    \/ StateQuery
    \/ Reset
    \/ \E t \in Threads : CallEnter(t) \/ OpSuccess(t) \/ OpFailure(t) \/ AfterFailure(t)
\* The steps of thread t.
StepOf(t) ==
    \/ CallEnter(t) \/ Reject(t) \/ OpSuccess(t)
    \/ OpFailure(t) \/ AfterFailure(t) \/ OpOtherError(t)
\* The first listener that uses the breaker, 0 when there is none.
FirstReentrant(b) ==
    IF \E i \in DOMAIN b._state_change_listeners :
           b._state_change_listeners[i] \in ReentrantListeners
    THEN CHOOSE i \in DOMAIN b._state_change_listeners :
           /\ b._state_change_listeners[i] \in ReentrantListeners
           /\ \A j \in 1..(i - 1) : b._state_change_listeners[j] \notin ReentrantListeners
    ELSE 0

\* C35: a transition notifies the listeners while the state lock is held.
\* When one of them reads `state` or calls reset() or call() on the same
\* breaker, the notification stops at that listener with the lock held,
\* the operation that made the transition never returns, its thread stays
\* in it, and from then on no operation that takes the state lock can take
\* a step.
C35_ListenerDeadlock ==
    /\ (FirstReentrant(breaker) > 0 /\ breaker.listener_calls # <<>>)
          => /\ breaker._state_lock = Notifying
             /\ Len(breaker.listener_calls) = FirstReentrant(breaker)
             /\ event.result = NeverReturns \/ event.op = "call_enter"
             /\ event.thread \in Threads => pc[event.thread] = "blocked"
    /\ breaker._state_lock = Notifying => ~ENABLED TakesStateLock
    /\ \A t \in Threads :
          pc[t] = "blocked"
              => breaker._state_lock = Notifying /\ ~ENABLED StepOf(t)

\* A failure opened the circuit, the second listener called reset() from
\* the notification, and the other thread, inside its operation, can no
\* longer record the outcome.
C35_Witness ==
    /\ breaker._state_lock = Notifying
    /\ breaker._state = OPEN
    /\ breaker.listener_calls = <<OPEN, OPEN>>
    /\ breaker._state_change_listeners[2] = "resets"
    /\ \E t, u \in Threads : pc[t] = "blocked" /\ pc[u] = "running"

\* C32: a thread inside get_stats() can take its next step, the call of
\* get_failure_rate(), and return the statistics.
C32_GetStatsReturns ==
    \A t \in Threads : pc[t] = "get_stats" => ENABLED GetStatsFailureRate(t)

\* C31: whenever the poll loop's thread completes an operation on the
\* consumer handle (poll returns or raises, commit returns or raises), no
\* other thread is inside an operation on that handle.
C31_HandleConfined ==
    [][ (kpc \in {"poll", "commit"} /\ kpc' # kpc) => ~runtime.in_handle ]_vars

\* C33: when stop() has returned and the poll loop has exited, the open
\* batch is empty.
C33_NothingLeftBehind ==
    (kpc = "returned" /\ runtime.stops >= 1) => consumer.batch_queue = <<>>

\* The handler invocations in flight: that of the code the thread is
\* running, and that of the code a signal handler interrupted.
InFlight ==
    (IF kpc = "handler" THEN 1 ELSE 0)
        + (IF runtime.interrupted = "handler" THEN 1 ELSE 0)

====
